---- MODULE Spec2Model ----
(***************************************************************************)
(* A model of cargo's command pipeline (src/cargo/lib.rs) and of the       *)
(* registry client (src/registry/lib.rs).                                  *)
(*                                                                         *)
(* Spec          the command pipeline: execute_main /                      *)
(*               execute_main_without_stdin -> process -> call_main ->     *)
(*               process_executed -> handle_error -> handle_cause.         *)
(* SpecRegistry  one call of a registry operation against every transport  *)
(*               outcome, status code and response body of the bounded     *)
(*               input sets.                                               *)
(***************************************************************************)
EXTENDS Integers, Sequences, FiniteSets, TLC

VARIABLES
    pc,            \* position of the command pipeline
    withStdin,     \* TRUE: execute_main, FALSE: execute_main_without_stdin
    args,          \* os::args() as the outcome the grammar parser gives them
    shellVerbose,  \* MultiShell's verbosity flag
    stdin,         \* what json_from_stdin read from standard input, if it ran
    result,        \* the CliResult<Option<V>> the callback produced so far
    io,            \* the observable effects of the process, in order
    exitStatus,    \* the process exit status (std::os::set_exit_status)
    req,           \* registry: the call being made and what the world answers
    res            \* registry: how the call ended and what it sent

vars == <<pc, withStdin, args, shellVerbose, stdin, result, io, exitStatus, req, res>>

cliVars == <<pc, withStdin, args, shellVerbose, stdin, result, io, exitStatus>>
regVars == <<req, res>>

----------------------------------------------------------------------------
(* Bounds *)

MaxCauses == 3      \* longest cause chain of an error
MaxValue  == 1      \* handler results are the numbers 0..MaxValue
MaxErrors == 2      \* most entries of a response's "errors" list
MaxJsonLen == 2     \* longest JSON-encoded crate metadata, in bytes

----------------------------------------------------------------------------
(* Small helpers: Option<T> is a sequence of length 0 or 1. *)

None == <<>>
Some(x) == <<x>>

SeqsUpTo(S, n) == UNION {[1..k -> S] : k \in 0..n}

----------------------------------------------------------------------------
(* ErrorModel: Box<CargoError> and CliError *)

Msgs == {"", "msg"}
Descs == {"c1", "c2"}
Chains == SeqsUpTo(Descs, MaxCauses)

\* The boxed CargoError of a CliError: to_string(), detail(), and the chain
\* of description()s reached by following cause() (immediate cause first).
CargoErrors == [msg : Msgs, detail : {None, Some("detail")}, causes : Chains]

ExitCodes == {0, 1, 101}

CliErrors == [error : CargoErrors, exit_code : ExitCodes, unknown : BOOLEAN]

\* CliError::new(message, code): a human error built from a message only.
CliError_new(message, code) ==
    [error |-> [msg |-> message, detail |-> None, causes |-> <<>>],
     exit_code |-> code, unknown |-> FALSE]

\* CliError::from_error(e, code): e boxed, with the given exit code; whether
\* it is flagged unknown is a property of e the pipeline does not decide.
CliError_from_error(e, code, unk) ==
    [error |-> e, exit_code |-> code, unknown |-> unk]

NoError == CliError_new("", 0)

----------------------------------------------------------------------------
(* CliResult<Option<V>> *)

Values == 0..MaxValue

Pending == [tag |-> "pending", val |-> 0, err |-> NoError]
OkSome(v) == [tag |-> "OkSome", val |-> v, err |-> NoError]
OkNone == [tag |-> "OkNone", val |-> 0, err |-> NoError]
Err(e) == [tag |-> "Err", val |-> 0, err |-> e]

\* json::encode of a handler result (a number encodes as its decimal text).
json_encode(v) == ToString(v)

----------------------------------------------------------------------------
(* Observable effects *)

Eff(ch, kind, text, code) == [ch |-> ch, kind |-> kind, text |-> text, code |-> code]

ReadStdin == Eff("stdin", "read_to_string", "", 0)
CallExec == Eff("exec", "call", "", 0)
Println(text) == Eff("stdout", "println", text, 0)
Say(kind, text) == Eff("stderr", kind, text, 0)
SetExitStatus(code) == Eff("exit", "set_exit_status", "", code)

Select(s, ch) == SelectSeq(s, LAMBDA e : e.ch = ch)
Count(s, ch) == Len(Select(s, ch))

----------------------------------------------------------------------------
(* ShellReporter: the MultiShell operations handle_error uses *)

\* MultiShell::error(message): the message, if non-empty, on the error channel.
shell_error(message) ==
    IF message = "" THEN <<>> ELSE <<Say("error", message)>>

\* MultiShell::concise(block): block runs only when verbosity is off.
shell_concise(verbose, block) == IF verbose THEN <<>> ELSE block

\* MultiShell::verbose(block): block runs only when verbosity is on.
shell_verbose(verbose, block) == IF verbose THEN block ELSE <<>>

\* shell(verbose): the MultiShell process() builds; process passes true.
shell(verbose) == verbose

----------------------------------------------------------------------------
(* handle_cause and handle_error *)

\* A handle_cause that does not follow err.cause().
handle_cause_once(chain) ==
    <<Say("say", "Caused by:"), Say("description", Head(chain))>>

RECURSIVE handle_cause(_)
\* chain is non-empty: Head(chain) is err, Tail(chain) what err.cause() leads to.
handle_cause(chain) ==
    <<Say("say", "Caused by:"), Say("description", Head(chain))>>
    \o (IF Tail(chain) # <<>> THEN handle_cause(Tail(chain)) ELSE <<>>)

\* Lines 174-178: the one-line summary.
handle_error_summary(err) ==
    IF err.unknown
    THEN shell_error("An unknown error occurred")
    ELSE IF err.error.msg # "" THEN shell_error(err.error.msg) ELSE <<>>

\* A hint that forgets the unknown flag.
handle_error_hint_cause_only(err, verbose) ==
    IF err.error.causes # <<>>
    THEN shell_concise(verbose, <<Say("hint", "To learn more, run the command again with --verbose.")>>)
    ELSE <<>>

\* Lines 180-184: the hint to run again with --verbose.
handle_error_hint(err, verbose) ==
    IF err.error.causes # <<>> \/ err.unknown
    THEN shell_concise(verbose, <<Say("hint", "To learn more, run the command again with --verbose.")>>)
    ELSE <<>>

\* Lines 186-197: the verbose report.
handle_error_report(err, verbose) ==
    shell_verbose(verbose,
        (IF err.unknown THEN shell_error(err.error.msg) ELSE <<>>)
        \o (IF err.error.detail # None
            THEN <<Say("detail", err.error.detail[1])>> ELSE <<>>)
        \o (IF err.error.causes # <<>>
            THEN handle_cause(err.error.causes) ELSE <<>>))

\* An exit status that ignores the error's exit_code.
handle_error_exit_const(err) == <<SetExitStatus(1)>>

\* Line 199.
handle_error_exit(err) == <<SetExitStatus(err.exit_code)>>

\* handle_error(err, shell): the effects it has, in order.
handle_error(err, verbose) ==
    handle_error_summary(err)
    \o handle_error_hint(err, verbose)
    \o handle_error_report(err, verbose)
    \o handle_error_exit(err)

\* A process_executed that prints the encoding of None as well.
process_executed_null(r, verbose) ==
    CASE r.tag = "Err" -> handle_error(r.err, verbose)
      [] r.tag = "OkSome" -> <<Println(json_encode(r.val))>>
      [] OTHER -> <<Println("null")>>

\* process_executed(result, shell): the effects it has, in order.
process_executed(r, verbose) ==
    CASE r.tag = "Err" -> handle_error(r.err, verbose)
      [] r.tag = "OkSome" -> <<Println(json_encode(r.val))>>
      [] OTHER -> <<>>

\* The exit status after the effects of s, starting from status.
RECURSIVE ApplyExit(_, _)
ApplyExit(status, s) ==
    IF s = <<>> THEN status
    ELSE ApplyExit(IF Head(s).ch = "exit" THEN Head(s).code ELSE status, Tail(s))

----------------------------------------------------------------------------
(* Inputs of the pipeline *)

Outcomes == {"ok", "fatal", "nonfatal"}

\* The errors the grammar parser (docopt) can hand back.
ParseErrors == {[msg |-> "msg", detail |-> None, causes |-> c] : c \in {<<>>, <<"c1">>}}

\* args as docopt sees them: what docopt_args gives, what value_map.decode()
\* gives afterwards, and the error either of them would carry.
Args ==
    {a \in [docopt : Outcomes, decode : Outcomes, e : ParseErrors, unk : BOOLEAN] :
        /\ a.docopt # "ok" => a.decode = "ok"
        /\ (a.docopt = "ok" /\ a.decode = "ok") =>
               (a.e.causes = <<>> /\ a.unk = FALSE)}

NoArgs == [docopt |-> "ok", decode |-> "ok",
           e |-> [msg |-> "msg", detail |-> None, causes |-> <<>>], unk |-> FALSE]

\* Standard input: whether it can be read, is UTF-8, is JSON text, and
\* decodes into the payload type U.
StdinInputs ==
    {s \in [readable : BOOLEAN, utf8 : BOOLEAN, json : BOOLEAN, decodes : BOOLEAN] :
        /\ s.utf8 => s.readable
        /\ s.json => s.utf8
        /\ s.decodes => s.json}

\* What the handler can return.
HandlerResults ==
    {OkSome(v) : v \in Values} \cup {OkNone} \cup {Err(e) : e \in CliErrors}

\* The two exit codes the wrong way round.
fatal_code_swapped(outcome) == IF outcome = "fatal" THEN 0 ELSE 1

\* Lines 233 and 237: let code = if e.fatal() {1} else {0}.
fatal_code(outcome) == IF outcome = "fatal" THEN 1 ELSE 0

\* flags_from_args(usage, args, options_first): Ok (OkNone stands for the
\* flags) or the CliError of the first failing step.
flags_from_args(a) ==
    IF a.docopt # "ok"
    THEN Err(CliError_from_error(a.e, fatal_code(a.docopt), a.unk))
    ELSE IF a.decode # "ok"
         THEN Err(CliError_from_error(a.e, fatal_code(a.decode), a.unk))
         ELSE OkNone

\* A json_from_stdin that lets a payload of the wrong shape through.
json_from_stdin_partial(s) ==
    IF ~(s.readable /\ s.utf8)
    THEN Err(CliError_new("Standard in did not exist or was not UTF-8", 1))
    ELSE IF ~s.json
         THEN Err(CliError_new("Could not parse standard in as JSON", 1))
         ELSE OkNone

\* json_from_stdin(): Ok (OkNone stands for the payload) or the CliError of
\* the first failing step.
json_from_stdin(s) ==
    IF ~(s.readable /\ s.utf8)
    THEN Err(CliError_new("Standard in did not exist or was not UTF-8", 1))
    ELSE IF ~s.json
         THEN Err(CliError_new("Could not parse standard in as JSON", 1))
         ELSE IF ~s.decodes
              THEN Err(CliError_new("Could not process standard in as input", 1))
              ELSE OkNone

----------------------------------------------------------------------------
(* The command pipeline *)

\* No registry call is being made.
IdleReq == [op |-> "none"]
IdleRes == [kind |-> "idle"]

InitCli ==
    /\ pc = "start"
    /\ withStdin = FALSE
    /\ args = NoArgs
    /\ shellVerbose = FALSE
    /\ stdin = None
    /\ result = Pending
    /\ io = <<>>
    /\ exitStatus = 0

Init ==
    /\ InitCli
    /\ req = IdleReq
    /\ res = IdleRes

\* process(callback), up to the call of callback: the shell is built verbose
\* and the arguments are taken from the environment.
process(stdinPayload) ==
    /\ pc = "start"
    /\ \E a \in Args : args' = a
    /\ withStdin' = stdinPayload
    /\ shellVerbose' = shell(TRUE)
    /\ pc' = "flags_from_args"
    /\ UNCHANGED <<stdin, result, io, exitStatus>>

\* execute_main(exec, options_first, usage)
execute_main ==
    /\ process(TRUE)
    /\ UNCHANGED regVars

\* execute_main_without_stdin(exec, options_first, usage)
execute_main_without_stdin ==
    /\ process(FALSE)
    /\ UNCHANGED regVars

\* Where call_main / call_main_without_stdin goes after flags_from_args gave
\* r: try! returns the error to process, otherwise the next statement runs.
after_flags(r, stdinPayload) ==
    IF r.tag = "Err" THEN "process_executed"
    ELSE IF stdinPayload THEN "json_from_stdin" ELSE "exec"

\* let flags = try!(flags_from_args::<T>(usage, args, options_first));
call_main_flags ==
    /\ pc = "flags_from_args"
    /\ LET r == flags_from_args(args) IN
         /\ pc' = after_flags(r, withStdin)
         /\ result' = IF r.tag = "Err" THEN r ELSE result
    /\ UNCHANGED <<withStdin, args, shellVerbose, stdin, io, exitStatus>>
    /\ UNCHANGED regVars

\* Where call_main goes after json_from_stdin gave r.
after_stdin(r) == IF r.tag = "Err" THEN "process_executed" ELSE "exec"

\* let json = try!(json_from_stdin::<U>());
call_main_stdin ==
    /\ pc = "json_from_stdin"
    /\ \E s \in StdinInputs :
         LET r == json_from_stdin(s) IN
           /\ stdin' = Some(s)
           /\ pc' = after_stdin(r)
           /\ result' = IF r.tag = "Err" THEN r ELSE result
    /\ io' = Append(io, ReadStdin)
    /\ UNCHANGED <<withStdin, args, shellVerbose, exitStatus>>
    /\ UNCHANGED regVars

\* exec(flags, json, shell) / exec(flags, shell): the handler returns any
\* result and, holding the shell by exclusive reference, may leave it in
\* either verbosity.
call_main_exec ==
    /\ pc = "exec"
    /\ \E r \in HandlerResults : result' = r
    /\ \E v \in BOOLEAN : shellVerbose' = v
    /\ io' = Append(io, CallExec)
    /\ pc' = "process_executed"
    /\ UNCHANGED <<withStdin, args, stdin, exitStatus>>
    /\ UNCHANGED regVars

\* process_executed(callback(..), &mut shell), the last statement of process.
process_executed_step ==
    /\ pc = "process_executed"
    /\ LET effects == process_executed(result, shellVerbose) IN
         /\ io' = io \o effects
         /\ exitStatus' = ApplyExit(exitStatus, effects)
    /\ pc' = "done"
    /\ UNCHANGED <<withStdin, args, shellVerbose, stdin, result>>
    /\ UNCHANGED regVars

Next ==
    \/ execute_main
    \/ execute_main_without_stdin
    \/ call_main_flags
    \/ call_main_stdin
    \/ call_main_exec
    \/ process_executed_step

Spec == Init /\ [][Next]_vars

----------------------------------------------------------------------------
(* RegistryClient: responses and their decoding *)

Codes == {0, 200, 201, 403, 404, 500}
Details == {"d1", "d2"}

\* One entry of an "errors" list: an object with or without a "detail" string.
Items ==
    {[hasDetail |-> TRUE, detail |-> d] : d \in Details}
    \cup {[hasDetail |-> FALSE, detail |-> ""]}

\* A response body: bytes that are UTF-8 or not; if UTF-8, JSON or not; if
\* JSON, with or without a boolean "ok" field and with or without an "errors"
\* list.
JsonBodies ==
    [utf8 : {TRUE}, json : {TRUE}, ok : {"absent", "true", "false"},
     errors : {None} \cup {Some(l) : l \in SeqsUpTo(Items, MaxErrors)}]

NonUtf8 == [utf8 |-> FALSE, json |-> FALSE, ok |-> "absent", errors |-> None]
NotJson == [utf8 |-> TRUE, json |-> FALSE, ok |-> "absent", errors |-> None]

Bodies == {NonUtf8, NotJson} \cup JsonBodies

\* What exec() gives: a curl error, or a response with a code and a body.
TransportError == [transport |-> "err", code |-> 0, body |-> NotJson]
Responses ==
    {TransportError} \cup [transport : {"ok"}, code : Codes, body : Bodies]

\* json::decode::<ApiErrorList>(body): the detail strings, or no value when
\* the text is not JSON, has no "errors" list, or an entry has no "detail".
decode_ApiErrorList(body) ==
    IF /\ body.json
       /\ body.errors # None
       /\ \A i \in 1..Len(body.errors[1]) : body.errors[1][i].hasDetail
    THEN Some([i \in 1..Len(body.errors[1]) |-> body.errors[1][i].detail])
    ELSE None

\* json::decode::<R>(body): the value of "ok", or no value.
decode_R(body) ==
    IF body.json /\ body.ok \in {"true", "false"}
    THEN Some(body.ok = "true")
    ELSE None

\* registry::Result<String>, with a note of whether the body was looked at.
Handled(kind, tag, body, errors, resp, examined) ==
    [kind |-> kind, tag |-> tag, body |-> body, errors |-> errors,
     resp |-> resp, examined |-> examined]

ROk(body) == Handled("Ok", "", Some(body), <<>>, None, TRUE)
RErr(tag, examined) == Handled("Err", tag, None, <<>>, None, examined)
NotOkResponse(response) ==
    Handled("Err", "NotOkResponse", None, <<>>, Some(response), FALSE)
ApiErrors(list) == Handled("Err", "ApiErrors", None, list, None, TRUE)

\* A handle that has no arm for 403.
handle_no_403(response) ==
    IF response.transport = "err" THEN RErr("CurlError", FALSE)
    ELSE IF response.code \notin {0, 200} THEN NotOkResponse(response)
    ELSE IF ~response.body.utf8 THEN RErr("NonUtf8Body", TRUE)
    ELSE LET errors == decode_ApiErrorList(response.body) IN
         IF errors # None THEN ApiErrors(errors[1]) ELSE ROk(response.body)

\* A handle that trusts the status code and does not look for an envelope.
handle_status_only(response) ==
    IF response.transport = "err" THEN RErr("CurlError", FALSE)
    ELSE IF response.code = 403 THEN RErr("Unauthorized", FALSE)
    ELSE IF response.code \notin {0, 200} THEN NotOkResponse(response)
    ELSE IF ~response.body.utf8 THEN RErr("NonUtf8Body", TRUE)
    ELSE ROk(response.body)

\* handle(response)
handle(response) ==
    IF response.transport = "err" THEN RErr("CurlError", FALSE)
    ELSE IF response.code = 403 THEN RErr("Unauthorized", FALSE)
    ELSE IF response.code \notin {0, 200} THEN NotOkResponse(response)
    ELSE IF ~response.body.utf8 THEN RErr("NonUtf8Body", TRUE)
    ELSE LET errors == decode_ApiErrorList(response.body) IN
         IF errors # None THEN ApiErrors(errors[1]) ELSE ROk(response.body)

----------------------------------------------------------------------------
(* RegistryClient: integers as little-endian byte sequences *)

\* The k low bytes of n, least significant first.
RECURSIVE le_bytes(_, _)
le_bytes(n, k) ==
    IF k = 0 THEN <<>> ELSE <<n % 256>> \o le_bytes(n \div 256, k - 1)

\* x as u32, x as uint: the low bytes of x, zero-extended if x is narrower.
cast(x, width) ==
    [i \in 1..width |-> IF i <= Len(x) THEN x[i] ELSE 0]

as_u32(x) == cast(x, 4)

\* a + b on unsigned integers of Len(a) = Len(b) bytes, wrapping around.
RECURSIVE add_carry(_, _, _)
add_carry(a, b, carry) ==
    IF a = <<>> THEN <<>>
    ELSE LET sum == Head(a) + Head(b) + carry IN
         <<sum % 256>> \o add_carry(Tail(a), Tail(b), sum \div 256)

wrapping_add(a, b) == add_carry(a, b, 0)

\* write_le_u32(v): the four bytes of v, least significant first.
write_le_u32(v) == v

----------------------------------------------------------------------------
(* RegistryClient: the operations *)

JsonBytes == {123, 125}

\* json::encode(krate): a non-empty text.
JsonTexts == SeqsUpTo(JsonBytes, MaxJsonLen) \ {<<>>}

\* stat.size of the archive, a u64: 0, 255, 2^32 - 9, 2^32 - 1, 2^32,
\* 2^64 - 1.
ArchiveSizes ==
    {<<0, 0, 0, 0, 0, 0, 0, 0>>,
     <<247, 255, 255, 255, 0, 0, 0, 0>>,
     <<255, 0, 0, 0, 0, 0, 0, 0>>,
     <<255, 255, 255, 255, 0, 0, 0, 0>>,
     <<0, 0, 0, 0, 1, 0, 0, 0>>,
     <<255, 255, 255, 255, 255, 255, 255, 255>>}

\* The width of uint in bytes: a 32-bit or a 64-bit build.
UintWidths == {4, 8}

NoSize == <<0, 0, 0, 0, 0, 0, 0, 0>>

OwnerOps == {"add_owners", "remove_owners"}
YankOps == {"yank", "unyank"}

\* A call and what the world answers it: for publish the encoded metadata,
\* what fs::stat and File::open give and the build's uint; for every
\* operation the response of the transport. Answers the operation never asks
\* for are left at a fixed value.
Requests ==
    {r \in [op : OwnerOps \cup YankOps \cup {"publish"},
            response : Responses,
            json : JsonTexts \cup {<<>>},
            stat : {"ok", "IoError"},
            size : ArchiveSizes,
            open : {"ok", "IoError"},
            width : UintWidths] :
        /\ r.op # "publish" =>
              (r.json = <<>> /\ r.stat = "ok" /\ r.size = NoSize
               /\ r.open = "ok" /\ r.width = 8)
        /\ r.op = "publish" => r.json # <<>>
        /\ r.stat = "IoError" => (r.size = NoSize /\ r.open = "ok")
        /\ (r.stat = "IoError" \/ r.open = "IoError") => r.response = TransportError}

\* What a call left behind: how it ended (Ok, Err with a tag, or a failed
\* task), the result handle gave if it was called, the request line, and for
\* publish the header and the declared Content-Length.
Ended(kind, tag, errors, handled, method, path, header, length) ==
    [kind |-> kind, tag |-> tag, errors |-> errors, handled |-> handled,
     method |-> method, path |-> path, header |-> header,
     content_length |-> length]

PendingRes == Ended("pending", "", <<>>, None, "", "", <<>>, None)

\* try!(self.put(..)) / try!(self.delete(..)) followed by
\* assert!(json::decode::<R>(body.as_slice()).unwrap().ok); Ok(())
checked_call(method, path, response) ==
    LET h == handle(response) IN
    IF h.kind = "Err"
    THEN Ended("Err", h.tag, h.errors, Some(h), method, path, <<>>, None)
    ELSE LET r == decode_R(h.body[1]) IN
         IF r = None
         THEN Ended("panic", "unwrap", <<>>, Some(h), method, path, <<>>, None)
         ELSE IF ~r[1]
              THEN Ended("panic", "assert", <<>>, Some(h), method, path, <<>>, None)
              ELSE Ended("Ok", "", <<>>, Some(h), method, path, <<>>, None)

\* The header of the upload: <le u32 of json> <json> <le u32 of tarball>.
publish_header(json, size, width) ==
    write_le_u32(as_u32(le_bytes(Len(json), width)))
    \o json
    \o write_le_u32(as_u32(size))

\* let size = stat.size as uint + header.get_ref().len();
publish_size(header, size, width) ==
    wrapping_add(cast(size, width), le_bytes(Len(header), width))

\* publish(krate, tarball)
publish_call(r) ==
    IF r.stat = "IoError"
    THEN Ended("Err", "IoError", <<>>, None, "", "", <<>>, None)
    ELSE LET header == publish_header(r.json, r.size, r.width) IN
         IF r.open = "IoError"
         THEN Ended("Err", "IoError", <<>>, None, "", "", header, None)
         ELSE LET length == publish_size(header, r.size, r.width)
                  h == handle(r.response)
              IN Ended(h.kind, h.tag, h.errors, Some(h), "PUT",
                       "/api/v1/crates/new", header, Some(length))

InitRegistry ==
    /\ InitCli
    /\ req \in Requests
    /\ res = PendingRes

Call(op) ==
    /\ req.op = op
    /\ res.kind = "pending"
    /\ UNCHANGED <<req, pc, withStdin, args, shellVerbose, stdin, result, io, exitStatus>>

add_owners ==
    /\ Call("add_owners")
    /\ res' = checked_call("PUT", "/api/v1/crates/{}/owners", req.response)

remove_owners ==
    /\ Call("remove_owners")
    /\ res' = checked_call("DELETE", "/api/v1/crates/{}/owners", req.response)

publish ==
    /\ Call("publish")
    /\ res' = publish_call(req)

yank ==
    /\ Call("yank")
    /\ res' = checked_call("DELETE", "/api/v1/crates/{}/{}/yank", req.response)

unyank ==
    /\ Call("unyank")
    /\ res' = checked_call("PUT", "/api/v1/crates/{}/{}/unyank", req.response)

NextRegistry ==
    \/ add_owners
    \/ remove_owners
    \/ publish
    \/ yank
    \/ unyank

SpecRegistry == InitRegistry /\ [][NextRegistry]_vars


----------------------------------------------------------------------------
(* Claims about the command pipeline (checked under Spec) *)

Stdout == Select(io, "stdout")
Stderr == Select(io, "stderr")
ExitCalls == Select(io, "exit")
Last(s) == s[Len(s)]

IsErr == result.tag = "Err"
TheErr == result.err
Reported == pc = "done" /\ IsErr

\* C4 as stated: on every run, whatever the outcome, the exit status is set
\* exactly once, as the last step, to the resolving exit code.
C4_ExitStatusSetExactlyOnce ==
    pc = "done" =>
        /\ Len(ExitCalls) = 1
        /\ Last(io).ch = "exit"
        /\ exitStatus = (IF IsErr THEN TheErr.exit_code ELSE 0)

\* C4 amended: the exit status is set at most once and never before the last
\* step of the pipeline. On an error outcome it is set exactly once, as the last
\* effect of the run, to the error's exit_code; on success (with or without a
\* result) it is never set and keeps its initial value 0.
C4_ExitStatusSetOnErrorOnly ==
    /\ pc # "done" => (ExitCalls = <<>> /\ exitStatus = 0)
    /\ (pc = "done" /\ IsErr) =>
          /\ ExitCalls = <<SetExitStatus(TheErr.exit_code)>>
          /\ Last(io) = SetExitStatus(TheErr.exit_code)
          /\ exitStatus = TheErr.exit_code
    /\ (pc = "done" /\ ~IsErr) =>
          /\ ExitCalls = <<>>
          /\ exitStatus = 0

C4_Witness ==
    /\ Reported
    /\ TheErr.exit_code = 101
    /\ TheErr.error.causes # <<>>
    /\ shellVerbose
    /\ exitStatus = 101
    /\ Len(io) > 3

\* C5: standard output holds exactly one line, the JSON encoding of the
\* result, once the pipeline has ended with Ok(Some(result)), and no line in
\* every other case (handler returned None, any error, or not yet ended).
C5_StdoutAtMostOneLine ==
    /\ (pc = "done" /\ result.tag = "OkSome") =>
           (\E v \in Values : result.val = v /\ Stdout = <<Println(ToString(v))>>)
    /\ ~(pc = "done" /\ result.tag = "OkSome") => Stdout = <<>>
    /\ (pc = "done" /\ result.tag = "OkNone") => exitStatus = 0

C5_Witness ==
    /\ pc = "done"
    /\ result.tag = "OkSome"
    /\ result.val = 1
    /\ Stdout = <<Println("1")>>
    /\ Len(io) = 3

StdinFailed ==
    /\ stdin # None
    /\ ~(stdin[1].readable /\ stdin[1].utf8 /\ stdin[1].json /\ stdin[1].decodes)

\* C6: once standard input was read and any of its three steps failed (read
\* or UTF-8, JSON parse, decoding into the payload), the result is a CliError
\* with exit code 1, not unknown, without cause; the handler is not called,
\* standard input is read once, nothing is written to standard output and
\* the run ends with exit status 1. Standard input is read only after the
\* arguments parsed, and never when the handler declares no payload.
C6_StdinFailure ==
    /\ StdinFailed =>
          /\ pc \in {"process_executed", "done"}
          /\ IsErr
          /\ TheErr.exit_code = 1
          /\ ~TheErr.unknown
          /\ TheErr.error.causes = <<>>
          /\ Count(io, "exec") = 0
          /\ Count(io, "stdin") = 1
          /\ Stdout = <<>>
          /\ pc = "done" => (exitStatus = 1 /\ Last(io) = SetExitStatus(1))
    /\ stdin # None => (withStdin /\ args.docopt = "ok" /\ args.decode = "ok")
    /\ ~withStdin => (stdin = None /\ Count(io, "stdin") = 0)

C6_Witness ==
    /\ pc = "done"
    /\ stdin = Some([readable |-> TRUE, utf8 |-> TRUE, json |-> TRUE, decodes |-> FALSE])
    /\ TheErr.error.msg = "Could not process standard in as input"
    /\ exitStatus = 1

ParseOutcome == IF args.docopt # "ok" THEN args.docopt ELSE args.decode

\* C7: when argument parsing or flag decoding failed, the CliError has exit
\* code 1 for a fatal failure and 0 for a non-fatal one, standard input is not
\* read, the handler is not called, and the run ends with that exit status.
C7_ParseFailure ==
    (pc \notin {"start", "flags_from_args"} /\ ParseOutcome # "ok") =>
        /\ pc \in {"process_executed", "done"}
        /\ IsErr
        /\ ParseOutcome = "fatal" => TheErr.exit_code = 1
        /\ ParseOutcome = "nonfatal" => TheErr.exit_code = 0
        /\ Count(io, "stdin") = 0
        /\ Count(io, "exec") = 0
        /\ pc = "done" => (exitStatus = TheErr.exit_code /\ Len(ExitCalls) = 1)

C7_Witness ==
    /\ pc = "done"
    /\ withStdin
    /\ args.docopt = "ok"
    /\ args.decode = "nonfatal"
    /\ exitStatus = 0
    /\ ExitCalls = <<SetExitStatus(0)>>

\* The lines of the cause chain as they should appear: one "Caused by:" line
\* followed by the description, for each cause from the immediate one to the root.
CauseBlocks(chain) ==
    [i \in 1..(2 * Len(chain)) |->
        IF i % 2 = 1 THEN Say("say", "Caused by:")
        ELSE Say("description", chain[i \div 2])]

CauseLines == SelectSeq(Stderr, LAMBDA e : e.kind \in {"say", "description"})

\* C8: after an error was reported in verbose mode, the error channel ends with
\* exactly n "Caused by:" blocks, n the length of the error's cause chain,
\* each followed by its cause's description, immediate cause first, and
\* nothing follows them; in non-verbose mode there is no "Caused by:" line,
\* no description and no detail.
C8_CauseChain ==
    Reported =>
        LET n == Len(TheErr.error.causes) IN
          /\ shellVerbose =>
                /\ CauseLines = CauseBlocks(TheErr.error.causes)
                /\ Len(Stderr) >= 2 * n
                /\ SubSeq(Stderr, Len(Stderr) - 2 * n + 1, Len(Stderr))
                      = CauseBlocks(TheErr.error.causes)
                /\ Len(SelectSeq(Stderr, LAMBDA e : e.text = "Caused by:")) = n
          /\ ~shellVerbose =>
                /\ CauseLines = <<>>
                /\ SelectSeq(Stderr, LAMBDA e : e.kind = "detail") = <<>>

C8_Witness ==
    /\ Reported
    /\ shellVerbose
    /\ TheErr.error.causes = <<"c1", "c2", "c1">>
    /\ CauseLines = <<Say("say", "Caused by:"), Say("description", "c1"),
                      Say("say", "Caused by:"), Say("description", "c2"),
                      Say("say", "Caused by:"), Say("description", "c1")>>

Hints == SelectSeq(Stderr, LAMBDA e : e.kind = "hint")

\* The verbose report of an error, as it should appear: the raw message if the
\* error is unknown, the detail if there is one, the cause chain.
FullReport(err) ==
    (IF err.unknown /\ err.error.msg # "" THEN <<Say("error", err.error.msg)>> ELSE <<>>)
    \o (IF err.error.detail # None THEN <<Say("detail", err.error.detail[1])>> ELSE <<>>)
    \o CauseBlocks(err.error.causes)

SummaryLen(err) == IF err.unknown \/ err.error.msg # "" THEN 1 ELSE 0

AfterSummary == SubSeq(Stderr, SummaryLen(TheErr) + 1, Len(Stderr))

\* C9: after an error was reported, the hint to run again with --verbose was
\* printed (once) if and only if (the error has a cause or is unknown) and
\* the shell is not verbose; and for an error with a cause or unknown, what
\* follows the summary is either the hint or the full verbose report, never
\* both and never neither.
C9_HintIffConciseAndCauseOrUnknown ==
    Reported =>
        LET hinted == Hints # <<>>
            reported == AfterSummary = FullReport(TheErr)
            deserves == TheErr.error.causes # <<>> \/ TheErr.unknown
        IN /\ hinted <=> (deserves /\ ~shellVerbose)
           /\ Len(Hints) <= 1
           /\ deserves => (hinted <=> ~reported)
           /\ deserves => (reported <=> shellVerbose)

C9_Witness ==
    /\ Reported
    /\ TheErr.unknown
    /\ TheErr.error.causes = <<>>
    /\ ~shellVerbose
    /\ Len(Hints) = 1
    /\ Last(Stderr).kind = "hint"

----------------------------------------------------------------------------
(* Claims about the registry client (checked under SpecRegistry) *)

WasHandled == res.handled # None
TheResult == res.handled[1]
TheResponse == req.response
Delivered == TheResponse.transport = "ok"
SuccessCode == Delivered /\ TheResponse.code \in {0, 200}

\* The body is the envelope {errors: [{detail}, ...]}.
IsEnvelope(body) ==
    /\ body.utf8
    /\ body.json
    /\ body.errors # None
    /\ \A item \in {body.errors[1][i] : i \in 1..Len(body.errors[1])} : item.hasDetail

\* C1: of a delivered response, handle looks at the status code alone: 0 and
\* 200 enter the success path, where the body is examined; 403 gives
\* Unauthorized whatever the body; every other code gives NotOkResponse
\* carrying the response. A transport error gives CurlError. In the last
\* three cases the body is not examined.
C1_StatusClassification ==
    WasHandled =>
        /\ ~Delivered =>
              (TheResult.kind = "Err" /\ TheResult.tag = "CurlError" /\ ~TheResult.examined)
        /\ SuccessCode =>
              (TheResult.examined /\ TheResult.tag \in {"", "NonUtf8Body", "ApiErrors"})
        /\ (Delivered /\ TheResponse.code = 403) =>
              /\ TheResult.kind = "Err"
              /\ TheResult.tag = "Unauthorized"
              /\ ~TheResult.examined
        /\ (Delivered /\ TheResponse.code \notin {0, 200, 403}) =>
              /\ TheResult.kind = "Err"
              /\ TheResult.tag = "NotOkResponse"
              /\ TheResult.resp = Some(TheResponse)
              /\ ~TheResult.examined

C1_Witness ==
    /\ WasHandled
    /\ req.op = "yank"
    /\ TheResponse.code = 403
    /\ IsEnvelope(TheResponse.body)
    /\ TheResponse.body.errors[1] # <<>>
    /\ TheResult.tag = "Unauthorized"

\* C2: of a response with status 0 or 200: a body that is not UTF-8 gives
\* NonUtf8Body; a UTF-8 body that is the envelope {errors: [{detail}, ...]}
\* gives ApiErrors with one entry per detail, in response order, never Ok;
\* any other UTF-8 body is returned unchanged as the Ok result.
C2_EnvelopeOverridesStatus ==
    (WasHandled /\ SuccessCode) =>
        LET body == TheResponse.body IN
          /\ ~body.utf8 =>
                (TheResult.kind = "Err" /\ TheResult.tag = "NonUtf8Body")
          /\ IsEnvelope(body) =>
                /\ TheResult.kind = "Err"
                /\ TheResult.tag = "ApiErrors"
                /\ Len(TheResult.errors) = Len(body.errors[1])
                /\ \A i \in 1..Len(body.errors[1]) :
                      TheResult.errors[i] = body.errors[1][i].detail
          /\ (body.utf8 /\ ~IsEnvelope(body)) =>
                /\ TheResult.kind = "Ok"
                /\ TheResult.body = Some(body)

C2_Witness ==
    /\ WasHandled
    /\ TheResponse.transport = "ok"
    /\ TheResponse.code = 200
    /\ TheResponse.body.ok = "true"
    /\ TheResponse.body.errors =
          Some(<<[hasDetail |-> TRUE, detail |-> "d2"], [hasDetail |-> TRUE, detail |-> "d1"]>>)
    /\ TheResult.errors = <<"d2", "d1">>
    /\ res.kind = "Err"

\* A number given least significant byte first, without its high zero bytes.
RECURSIVE Norm(_)
Norm(x) ==
    IF x = <<>> THEN <<>>
    ELSE IF x[Len(x)] = 0 THEN Norm(SubSeq(x, 1, Len(x) - 1)) ELSE x

\* The value of a few little-endian bytes.
RECURSIVE le_value(_)
le_value(x) == IF x = <<>> THEN 0 ELSE Head(x) + 256 * le_value(Tail(x))

\* a + n without wrapping, n a small number.
PlusSmall(a, n) == Norm(add_carry(cast(a, Len(a) + 1), le_bytes(n, Len(a) + 1), 0))

HeaderBuilt == res.kind # "pending" /\ req.op = "publish" /\ req.stat = "ok"
Sent == HeaderBuilt /\ res.content_length # None

\* C3: the header publish builds is 4+L1+4 bytes long, its first 4 bytes
\* decode (little-endian) to L1, the length of the metadata JSON, the 4 bytes
\* at offset L1+4 decode to L2, the length of the archive, and the declared
\* Content-Length is the header length plus L2.
C3_PublishFraming ==
    /\ HeaderBuilt =>
          LET L1 == Len(req.json) IN
            /\ Len(res.header) = 4 + L1 + 4
            /\ le_value(SubSeq(res.header, 1, 4)) = L1
            /\ SubSeq(res.header, 5, 4 + L1) = req.json
            /\ Norm(SubSeq(res.header, L1 + 5, L1 + 8)) = Norm(req.size)
    /\ Sent =>
          Norm(res.content_length[1]) = PlusSmall(req.size, Len(res.header))

\* C3, for archives the frame can describe: the same on a 64-bit build when
\* L2 < 2^32 (the four high bytes of stat.size are zero).
C3_PublishFramingBelow4GiB ==
    (req.op = "publish" /\ req.width = 8 /\ SubSeq(req.size, 5, 8) = <<0, 0, 0, 0>>)
        => C3_PublishFraming

\* C10: every registry operation ends by returning Ok or a RegistryError, and
\* returns Ok only for a response with status 0 or 200 and a UTF-8 body that
\* is not an error envelope and (for the owner operations) has ok == true.
C10_AlwaysReturns ==
    res.kind # "pending" =>
        /\ res.kind \in {"Ok", "Err"}
        /\ res.kind = "Ok" =>
              /\ SuccessCode
              /\ TheResponse.body.utf8
              /\ ~IsEnvelope(TheResponse.body)
              /\ req.op \in OwnerOps => TheResponse.body.ok = "true"

====
